---- MODULE Spec2Model ----
(***************************************************************************)
(* PR description validator (pr-validate-description.js): three section    *)
(* validators run in sequence over a decoded payload, write pass/fail      *)
(* lines to the console and set process.exitCode.                          *)
(*                                                                         *)
(* Strings are sequences of one-character strings.  A JavaScript object    *)
(* is a record; an absent property is a field missing from the record.     *)
(* Every variable is indexed by the invocation (process) it belongs to.    *)
(***************************************************************************)
EXTENDS Integers, Sequences, FiniteSets, TLC

VARIABLES payload, pc, out, exitCode

vars == <<payload, pc, out, exitCode>>

----------------------------------------------------------------------------
(* Bounds of the model *)

MaxBlocks == 2
MaxItems == 2

----------------------------------------------------------------------------
(* JavaScript string primitives used by the script *)

WhiteSpace == {" ", "\n"}

Digits == {"0", "1", "2", "3", "4", "5", "6", "7", "8", "9"}

UpperCase == <<"A","B","C","D","E","F","G","H","I","J","K","L","M",
               "N","O","P","Q","R","S","T","U","V","W","X","Y","Z">>

LowerCase == <<"a","b","c","d","e","f","g","h","i","j","k","l","m",
               "n","o","p","q","r","s","t","u","v","w","x","y","z">>

RECURSIVE TrimStart(_)
TrimStart(s) ==
    IF s # <<>> /\ Head(s) \in WhiteSpace THEN TrimStart(Tail(s)) ELSE s

RECURSIVE TrimEnd(_)
TrimEnd(s) ==
    IF s # <<>> /\ s[Len(s)] \in WhiteSpace
    THEN TrimEnd(SubSeq(s, 1, Len(s) - 1))
    ELSE s

Trim(s) == TrimEnd(TrimStart(s))

ToLowerChar(c) ==
    IF \E k \in 1..Len(UpperCase) : UpperCase[k] = c
    THEN LowerCase[CHOOSE k \in 1..Len(UpperCase) : UpperCase[k] = c]
    ELSE c

(* includes("n/a") on the text as written *)
KeepCase(s) == s

ToLowerCase(s) == [k \in 1..Len(s) |-> ToLowerChar(s[k])]

Includes(s, sub) ==
    \E k \in 1..(Len(s) - Len(sub) + 1) : SubSeq(s, k, k + Len(sub) - 1) = sub

RECURSIVE Join(_, _)
Join(list, sep) ==
    IF list = <<>> THEN <<>>
    ELSE IF Len(list) = 1 THEN list[1]
    ELSE list[1] \o sep \o Join(Tail(list), sep)

RECURSIVE Flatten(_)
Flatten(lists) ==
    IF lists = <<>> THEN <<>> ELSE Head(lists) \o Flatten(Tail(lists))

(* the value undefined: it has no properties *)
Undefined == [k \in {} |-> k]

(* a property read that yields undefined is falsy: !obj.prop *)
Has(obj, prop) == prop \in DOMAIN obj

(* obj.prop and obj?.prop *)
Prop(obj, prop) == IF Has(obj, prop) THEN obj[prop] ELSE Undefined

(* !x.raw : raw is undefined or the empty string *)
NoRaw(x) == ~Has(x, "raw") \/ x.raw = <<>>

----------------------------------------------------------------------------
(* Regular expressions *)

(* [^>]+ is greedy: it runs to the next ">" or to the end of the text *)
RECURSIVE NotCloseRunEnd(_, _)
NotCloseRunEnd(s, k) ==
    IF k > Len(s) \/ s[k] = ">" THEN k ELSE NotCloseRunEnd(s, k + 1)

placeholderMatchAt(s, k) ==
    /\ s[k] = "<"
    /\ LET e == NotCloseRunEnd(s, k + 1)
       IN  e >= k + 2 /\ e <= Len(s)

(* /<[^>]+>/.test(s) *)
placeholderRegex(s) == \E k \in 1..Len(s) : placeholderMatchAt(s, k)

RECURSIVE DigitRunEnd(_, _)
DigitRunEnd(s, k) ==
    IF k > Len(s) \/ s[k] \notin Digits THEN k ELSE DigitRunEnd(s, k + 1)

(* s.match(/#\d+/g) ?? [] : leftmost non-overlapping matches from position k *)
RECURSIVE GITHUB_ISSUE_FORMAT(_, _)
GITHUB_ISSUE_FORMAT(s, k) ==
    IF k > Len(s) THEN <<>>
    ELSE IF s[k] = "#" /\ DigitRunEnd(s, k + 1) > k + 1
         THEN <<SubSeq(s, k, DigitRunEnd(s, k + 1) - 1)>>
              \o GITHUB_ISSUE_FORMAT(s, DigitRunEnd(s, k + 1))
         ELSE GITHUB_ISSUE_FORMAT(s, k + 1)

----------------------------------------------------------------------------
(* Console output and exit status.  st is [out, exitCode] of one process. *)

NoText == <<>>

(* fail without line 106 *)
failKeepsExitCode(st, fieldName, error, message) ==
    [out |-> Append(st.out, [glyph |-> "fail", fieldName |-> fieldName,
                             error |-> error, message |-> message]),
     exitCode |-> st.exitCode]

fail(st, fieldName, error, message) ==
    [out |-> Append(st.out, [glyph |-> "fail", fieldName |-> fieldName,
                             error |-> error, message |-> message]),
     exitCode |-> 1]

(* pass that reports success through the exit status *)
passClearsExitCode(st, fieldName, message) ==
    [out |-> Append(st.out, [glyph |-> "pass", fieldName |-> fieldName,
                             error |-> "none", message |-> message]),
     exitCode |-> 0]

pass(st, fieldName, message) ==
    [out |-> Append(st.out, [glyph |-> "pass", fieldName |-> fieldName,
                             error |-> "none", message |-> message]),
     exitCode |-> st.exitCode]

----------------------------------------------------------------------------
(* validateDescriptionOfChanges *)

MinMeaningful == 10

ItemsOf(block) == IF Has(block, "items") THEN block.items ELSE <<>>

IsList(block) == block.type = "list"

BlockItems(bodies) == [k \in 1..Len(bodies) |-> ItemsOf(bodies[k])]

IsConcrete(item) ==
    IF NoRaw(item) THEN FALSE
    ELSE Len(Trim(item.raw)) > 0 /\ ~placeholderRegex(Trim(item.raw))

changes(bodies) ==
    SelectSeq(Flatten(BlockItems(SelectSeq(bodies, IsList))), IsConcrete)

(* line 157 without trim() *)
IsMeaningfulUntrimmed(item) == Len(item.raw) > MinMeaningful

IsMeaningful(item) == Len(Trim(item.raw)) > MinMeaningful

meaningfulChanges(bodies) == SelectSeq(changes(bodies), IsMeaningful)

RawOf(items) == [k \in 1..Len(items) |-> items[k].raw]

DescriptionSeparator == <<"\n"," "," "," "," ",">"," ">>

validateDescriptionOfChanges(st, descriptionOfChanges) ==
    IF ~Has(descriptionOfChanges, "bodies")
    THEN fail(st, "Description of Changes", "MissingSection", NoText)
    ELSE IF Len(changes(descriptionOfChanges.bodies)) = 0
    THEN fail(st, "Description of Changes", "NoConcreteChanges", NoText)
    ELSE IF Len(meaningfulChanges(descriptionOfChanges.bodies)) = 0
    THEN fail(st, "Description of Changes", "ChangesNotMeaningful", NoText)
    ELSE pass(st, "Description of Changes",
              Join(RawOf(meaningfulChanges(descriptionOfChanges.bodies)),
                   DescriptionSeparator))

----------------------------------------------------------------------------
(* validateResolvedIssuesSection *)

(* .at(-1) instead of .at(0) *)
LastList(bodies) ==
    IF SelectSeq(bodies, IsList) = <<>> THEN <<>>
    ELSE <<SelectSeq(bodies, IsList)[Len(SelectSeq(bodies, IsList))]>>

(* bodies.filter(type === "list").at(0), as a sequence of at most one block *)
FirstList(bodies) ==
    IF SelectSeq(bodies, IsList) = <<>> THEN <<>>
    ELSE <<Head(SelectSeq(bodies, IsList))>>

issueList(raw) == GITHUB_ISSUE_FORMAT(raw, 1)

NotApplicable == <<"n","/","a">>

NotApplicableMarker == <<"N","/","A">>

(* `${issueList}` : Array.prototype.toString joins with "," *)
ArrayToString(list) == Join(list, <<",">>)

validateResolvedIssuesSection(st, resolvedIssues) ==
    IF ~Has(resolvedIssues, "bodies")
    THEN fail(st, "GitHub Issues", "MissingSection", NoText)
    ELSE LET issuesCheckList == FirstList(resolvedIssues.bodies) IN
    IF issuesCheckList = <<>> \/ NoRaw(issuesCheckList[1])
    THEN fail(st, "GitHub Issues", "MissingIssueList", NoText)
    ELSE LET raw == issuesCheckList[1].raw IN
    IF Len(issueList(raw)) = 0 /\ ~Includes(ToLowerCase(raw), NotApplicable)
    THEN fail(st, "Missing Resolved Issues", "MissingResolvedIssues", raw)
    ELSE pass(st, "Issues resolved by this pull request",
              IF Len(issueList(raw)) > 0
              THEN ArrayToString(issueList(raw))
              ELSE NotApplicableMarker)

----------------------------------------------------------------------------
(* validateQaSection *)

SUCCESS_CRITERIA_TITLE ==
    <<"-"," ","O","n","c","e"," ","t","h","e"," ","c","h","a","n","g","e","s",
      " ","i","n"," ","t","h","i","s"," ","P","R"," ","a","r","e"," ","m","e",
      "r","g","e","d"," ","a","n","d"," ","d","e","p","l","o","y","e","d",",",
      " ","s","u","c","c","e","s","s"," ","c","r","i","t","e","r","i","a"," ",
      "i","s",":">>

qaCheckList(qaSection) == FirstList(qaSection.bodies)

(* lines 270-299 with bodies defaulted to an empty list *)
QaEarlyErrorDefaultedBodies(qaSection) ==
    IF ~Has(qaSection, "bodies") THEN "MissingChecklist"
    ELSE IF FirstList(qaSection.bodies) = <<>> THEN "MissingChecklist"
    ELSE IF Len(ItemsOf(FirstList(qaSection.bodies)[1])) = 0
         THEN "EmptyChecklist"
    ELSE "none"

(* the guards of lines 270-299: which early return, if any, is taken *)
QaEarlyError(qaSection) ==
    IF ~Has(qaSection, "bodies") THEN "MissingSection"
    ELSE IF qaCheckList(qaSection) = <<>> THEN "MissingChecklist"
    ELSE IF Len(ItemsOf(qaCheckList(qaSection)[1])) = 0 THEN "EmptyChecklist"
    ELSE "none"

successCriteria(qaSection) == qaCheckList(qaSection)[1].items[1]

(* successCriteria.raw.trim() throws a TypeError when raw is undefined *)
TrimThrows(criteria) == ~Has(criteria, "raw")

IsPlaceholderCriteria(criteria) == Trim(criteria.raw) = SUCCESS_CRITERIA_TITLE

----------------------------------------------------------------------------
(* The payload: prDescription, decoded from PR_DESCRIPTION_JSON *)

Description_of_changes(prDescription) ==
    Prop(prDescription, "Description_of_changes")

(* line 95 handing over the section of line 94 *)
IssuesFromDescription(prDescription) ==
    Prop(prDescription, "Description_of_changes")

GitHub_issues_resolved_by_this_PR(prDescription) ==
    Prop(prDescription, "GitHub_issues_resolved_by_this_PR")

Quality_Assurance(prDescription) == Prop(prDescription, "Quality_Assurance")

----------------------------------------------------------------------------
(* The run of one process: lines 94-96, then the steps of validateQaSection *)

St(i) == [out |-> out[i], exitCode |-> exitCode[i]]

Apply(i, st) ==
    /\ out' = [out EXCEPT ![i] = st.out]
    /\ exitCode' = [exitCode EXCEPT ![i] = st.exitCode]

Goto(i, label) == pc' = [pc EXCEPT ![i] = label]

ValidateDescriptionOfChanges(i) ==
    /\ pc[i] = "desc"
    /\ Apply(i, validateDescriptionOfChanges(
                    St(i), Description_of_changes(payload[i])))
    /\ Goto(i, "issues")
    /\ UNCHANGED payload

ValidateResolvedIssuesSection(i) ==
    /\ pc[i] = "issues"
    /\ Apply(i, validateResolvedIssuesSection(
                    St(i), GitHub_issues_resolved_by_this_PR(payload[i])))
    /\ Goto(i, "qa")
    /\ UNCHANGED payload

(* lines 269-301: the three early returns, or on to the success criteria *)
ValidateQaSection(i) ==
    /\ pc[i] = "qa"
    /\ LET qaSection == Quality_Assurance(payload[i]) IN
       IF QaEarlyError(qaSection) # "none"
       THEN /\ Apply(i, fail(St(i), "Quality Assurance",
                             QaEarlyError(qaSection), NoText))
            /\ Goto(i, "done")
       ELSE /\ UNCHANGED <<out, exitCode>>
            /\ Goto(i, "qa_criteria")
    /\ UNCHANGED payload

(* lines 303-308: no return after the fail *)
QaCheckCriteria(i) ==
    /\ pc[i] = "qa_criteria"
    /\ IF NoRaw(successCriteria(Quality_Assurance(payload[i])))
       THEN Apply(i, fail(St(i), "Quality Assurance",
                          "InvalidCriteriaFormat", NoText))
       ELSE UNCHANGED <<out, exitCode>>
    /\ Goto(i, "qa_placeholder")
    /\ UNCHANGED payload

(* lines 310-315: raw.trim() throws on undefined, and the process dies with *)
(* the exit status the fail of line 304 has set; no return after the fail  *)
QaCheckPlaceholder(i) ==
    /\ pc[i] = "qa_placeholder"
    /\ LET criteria == successCriteria(Quality_Assurance(payload[i])) IN
       IF TrimThrows(criteria)
       THEN /\ UNCHANGED <<out, exitCode>>
            /\ Goto(i, "aborted")
       ELSE /\ IF IsPlaceholderCriteria(criteria)
               THEN Apply(i, fail(St(i), "Success criteria",
                                  "PlaceholderCriteria", criteria.raw))
               ELSE UNCHANGED <<out, exitCode>>
            /\ Goto(i, "qa_pass")
    /\ UNCHANGED payload

(* line 316 *)
QaPass(i) ==
    /\ pc[i] = "qa_pass"
    /\ Apply(i, pass(St(i), "Success criteria",
                     successCriteria(Quality_Assurance(payload[i])).raw))
    /\ Goto(i, "done")
    /\ UNCHANGED payload

Next ==
    \/ \E i \in DOMAIN pc : ValidateDescriptionOfChanges(i)
    \/ \E i \in DOMAIN pc : ValidateResolvedIssuesSection(i)
    \/ \E i \in DOMAIN pc : ValidateQaSection(i)
    \/ \E i \in DOMAIN pc : QaCheckCriteria(i)
    \/ \E i \in DOMAIN pc : QaCheckPlaceholder(i)
    \/ \E i \in DOMAIN pc : QaPass(i)

----------------------------------------------------------------------------
(* Payloads *)

SeqsUpTo(S, n) == UNION {[1..k -> S] : k \in 0..n}

(* a section object without a bodies property *)
NoBodies == [title |-> <<"Q","A">>]

Dash == <<"-">>

Spaces == <<" "," ">>

(* trimmed length 10; "<>" is not a placeholder *)
Len10Padded == <<" ","<",">","c","d","e","f","g","h","i","j","\n">>

(* length 11; ">" before "<" is not a placeholder *)
Len11 == <<"a",">","b","<","e","f","g","h","i","j","k">>

PlaceholderLong ==
    <<"f","i","x"," ","<","x",">"," ","i","n"," ","t","h","e"," ","p","a",
      "r","s","e","r">>

DescRaws == {<<>>, Spaces, Len10Padded, Len11, PlaceholderLong}

ItemsWith(raws) ==
    {[checked |-> FALSE]} \cup {[checked |-> FALSE, raw |-> r] : r \in raws}

ListBlocks(items) ==
    {[type |-> "list", raw |-> Dash]}
    \cup {[type |-> "list", raw |-> Dash, items |-> s] :
              s \in SeqsUpTo(items, MaxItems)}

ListOf(raws) ==
    [type |-> "list", raw |-> Dash,
     items |-> [k \in 1..Len(raws) |-> [checked |-> FALSE, raw |-> raws[k]]]]

TextOf(raws) ==
    [type |-> "text", raw |-> Dash,
     items |-> [k \in 1..Len(raws) |-> [checked |-> FALSE, raw |-> raws[k]]]]

SectionsOf(blocks) ==
    {Undefined, NoBodies}
    \cup {[bodies |-> b] : b \in SeqsUpTo(blocks, MaxBlocks)}

(* bodies of at most MaxBlocks blocks: any one block of focus among blocks  *)
(* of context, or blocks of context only                                   *)
BodiesAround(focus, context) ==
    SeqsUpTo(context, MaxBlocks)
    \cup UNION {UNION {{pre \o <<f>> \o post :
                            f \in focus,
                            pre \in [1..a -> context],
                            post \in [1..b -> context]} :
                        b \in 0..(MaxBlocks - 1 - a)} :
                 a \in 0..(MaxBlocks - 1)}

SectionsAround(focus, context) ==
    {Undefined, NoBodies}
    \cup {[bodies |-> b] : b \in BodiesAround(focus, context)}

DescContext ==
    {[type |-> "text", raw |-> Dash], TextOf(<<Len11>>),
     ListOf(<<PlaceholderLong, Len11>>), ListOf(<<Spaces>>)}

DescSections == SectionsAround(ListBlocks(ItemsWith(DescRaws)), DescContext)

TwoIssues ==
    <<"-"," ","F","i","x","e","s"," ","#","4","2"," ","a","n","d"," ","#",
      "1","0","8">>

SameIssueTwice == <<"-"," ","#","7"," ","#","7">>

UpperNA ==
    <<"-"," ","N","o"," ","r","e","l","a","t","e","d"," ","i","s","s","u",
      "e",","," ","N","/","A">>

LowerNA == <<"n","/","a">>

NoIssue ==
    <<"-"," ","S","e","e"," ","t","h","e"," ","i","s","s","u","e"," ","t",
      "r","a","c","k","e","r">>

HashWithoutDigits == <<"-"," ","#"," ","1","2"," ","#","x">>

IssueRaws ==
    {<<>>, TwoIssues, SameIssueTwice, UpperNA, LowerNA, NoIssue,
     HashWithoutDigits}

IssueBlocks ==
    {[type |-> t] : t \in {"list", "text"}}
    \cup {[type |-> t, raw |-> r] : t \in {"list", "text"}, r \in IssueRaws}

IssueSections == SectionsOf(IssueBlocks)

ItWorks == <<"-"," ","i","t"," ","w","o","r","k","s">>

TitlePadded == <<" ">> \o SUCCESS_CRITERIA_TITLE \o <<"\n">>

TitleExtended == SUCCESS_CRITERIA_TITLE \o <<" ">> \o ItWorks

QaRaws == {<<>>, SUCCESS_CRITERIA_TITLE, TitlePadded, TitleExtended, ItWorks}

QaContext ==
    {[type |-> "text", raw |-> Dash], TextOf(<<SUCCESS_CRITERIA_TITLE>>),
     ListOf(<<ItWorks>>), ListOf(<<SUCCESS_CRITERIA_TITLE, ItWorks>>)}

QaSections == SectionsAround(ListBlocks(ItemsWith(QaRaws)), QaContext)

GoodDescription == [bodies |-> <<ListOf(<<Len11>>)>>]

GoodIssues == [bodies |-> <<[type |-> "list", raw |-> TwoIssues]>>]

GoodQa == [bodies |-> <<ListOf(<<ItWorks>>)>>]

(* JSON.parse result: a key whose section is undefined is simply not there *)
Key(name, section) ==
    IF section = Undefined THEN Undefined ELSE (name :> section)

PrDescription(d, g, q) ==
    Key("Description_of_changes", d)
    @@ Key("GitHub_issues_resolved_by_this_PR", g)
    @@ Key("Quality_Assurance", q)

PayloadsOf(D, G, Q) == {PrDescription(d, g, q) : d \in D, g \in G, q \in Q}

DescBasic ==
    {Undefined, NoBodies, GoodDescription,
     [bodies |-> <<ListOf(<<PlaceholderLong>>)>>],
     [bodies |-> <<ListOf(<<Len10Padded>>)>>]}

IssuesBasic ==
    {Undefined, GoodIssues,
     [bodies |-> <<[type |-> "text", raw |-> TwoIssues]>>],
     [bodies |-> <<[type |-> "list", raw |-> NoIssue]>>],
     [bodies |-> <<[type |-> "list", raw |-> UpperNA]>>]}

QaBasic ==
    {Undefined, NoBodies, GoodQa,
     [bodies |-> <<>>],
     [bodies |-> <<[type |-> "list", raw |-> Dash]>>],
     [bodies |-> <<ListOf(<<>>)>>],
     [bodies |-> <<[type |-> "list", raw |-> Dash,
                    items |-> <<[checked |-> FALSE]>>]>>],
     [bodies |-> <<ListOf(<<<<>>>>)>>],
     [bodies |-> <<ListOf(<<SUCCESS_CRITERIA_TITLE>>)>>],
     [bodies |-> <<ListOf(<<TitlePadded, ItWorks>>)>>]}

InitWith(procs, payloads) ==
    /\ payload \in [procs -> payloads]
    /\ pc = [i \in procs |-> "desc"]
    /\ out = [i \in procs |-> <<>>]
    /\ exitCode = [i \in procs |-> 0]

(* one run over a payload of mixed sections *)
Init == InitWith({1}, PayloadsOf(DescBasic, IssuesBasic, QaBasic))

Spec == Init /\ [][Next]_vars

(* one run, every description section within the bounds *)
InitDescription ==
    InitWith({1}, PayloadsOf(DescSections, {GoodIssues}, {GoodQa}))

SpecDescription == InitDescription /\ [][Next]_vars

(* one run, every issues section within the bounds *)
InitIssues ==
    InitWith({1}, PayloadsOf({GoodDescription}, IssueSections, {GoodQa}))

SpecIssues == InitIssues /\ [][Next]_vars

(* one run, every QA section within the bounds *)
InitQa == InitWith({1}, PayloadsOf({GoodDescription}, {GoodIssues}, QaSections))

SpecQa == InitQa /\ [][Next]_vars

(* two runs side by side, to compare what a section reports *)
DescPair == {Undefined, GoodDescription, [bodies |-> <<ListOf(<<Len10Padded>>)>>]}

IssuesPair == {NoBodies, GoodIssues, [bodies |-> <<[type |-> "list", raw |-> NoIssue]>>]}

QaPair ==
    {Undefined, NoBodies, GoodQa,
     [bodies |-> <<ListOf(<<SUCCESS_CRITERIA_TITLE>>)>>],
     [bodies |-> <<[type |-> "list", raw |-> Dash,
                    items |-> <<[checked |-> FALSE]>>]>>]}

InitPair == InitWith({1, 2}, PayloadsOf(DescPair, IssuesPair, QaPair))

SpecPair == InitPair /\ [][Next]_vars

----------------------------------------------------------------------------
(* Vocabulary of the properties *)

Sections == {"desc", "issues", "qa"}

SectionOf(fieldName) ==
    IF fieldName = "Description of Changes" THEN "desc"
    ELSE IF fieldName \in {"GitHub Issues", "Missing Resolved Issues",
                           "Issues resolved by this pull request"}
         THEN "issues"
    ELSE "qa"

SectionInput(i, sec) ==
    IF sec = "desc" THEN Prop(payload[i], "Description_of_changes")
    ELSE IF sec = "issues"
         THEN Prop(payload[i], "GitHub_issues_resolved_by_this_PR")
    ELSE Prop(payload[i], "Quality_Assurance")

Lines(i, sec) ==
    LET OfSection(l) == SectionOf(l.fieldName) = sec
    IN  SelectSeq(out[i], OfSection)

HasLine(lines, glyph) == \E k \in 1..Len(lines) : lines[k].glyph = glyph

SectionFailed(i, sec) == HasLine(Lines(i, sec), "fail")

SectionPassed(i, sec) ==
    HasLine(Lines(i, sec), "pass") /\ ~SectionFailed(i, sec)

Completed(i) == pc[i] = "done"

Terminated(i) == pc[i] \in {"done", "aborted"}

(* the validator of the section has returned or thrown *)
Ran(i, sec) ==
    IF sec = "desc" THEN pc[i] # "desc"
    ELSE IF sec = "issues" THEN pc[i] \notin {"desc", "issues"}
    ELSE Terminated(i)

FailLine(fieldName, error, message) ==
    [glyph |-> "fail", fieldName |-> fieldName, error |-> error,
     message |-> message]

PassLine(fieldName, message) ==
    [glyph |-> "pass", fieldName |-> fieldName, error |-> "none",
     message |-> message]

----------------------------------------------------------------------------
(* C1: when the run completes, the exit status is zero if all three        *)
(* sections passed and nonzero if any of them failed.                      *)
C1_ExitStatusReflectsSections ==
    \A i \in DOMAIN pc :
        Completed(i) =>
            /\ (\A sec \in Sections : SectionPassed(i, sec)) => exitCode[i] = 0
            /\ (\E sec \in Sections : SectionFailed(i, sec)) => exitCode[i] # 0
            /\ \A sec \in Sections : SectionPassed(i, sec) \/ SectionFailed(i, sec)

(* a completed run where the description failed and the other two passed *)
C1_Witness ==
    \E i \in DOMAIN pc :
        /\ Completed(i)
        /\ SectionFailed(i, "desc")
        /\ SectionPassed(i, "issues")
        /\ SectionPassed(i, "qa")
        /\ exitCode[i] # 0

(* C2: the exit status is monotonic: once nonzero, no step of the run      *)
(* (no later pass or fail of any validator) makes it zero again.           *)
C2_ExitStatusMonotonic ==
    [][\A i \in DOMAIN pc : exitCode[i] # 0 => exitCode'[i] # 0]_vars

(* a pass line was written after a fail line and the status is nonzero *)
C2_Witness ==
    \E i \in DOMAIN pc :
        /\ exitCode[i] # 0
        /\ \E k \in 1..Len(out[i]) : \E m \in (k + 1)..Len(out[i]) :
               out[i][k].glyph = "fail" /\ out[i][m].glyph = "pass"

(* C3: every run writes exactly three lines, one per section, in the order *)
(* Description, Issues, QA; three well-formed sections give three pass     *)
(* lines and exit status 0.                                                *)
C3_OneLinePerSection ==
    \A i \in DOMAIN pc :
        Terminated(i) =>
            /\ Len(out[i]) = 3
            /\ SectionOf(out[i][1].fieldName) = "desc"
            /\ SectionOf(out[i][2].fieldName) = "issues"
            /\ SectionOf(out[i][3].fieldName) = "qa"
            /\ (payload[i] = PrDescription(GoodDescription, GoodIssues, GoodQa)
                  => /\ \A k \in 1..3 : out[i][k].glyph = "pass"
                     /\ exitCode[i] = 0)

(* C4: the validators are independent: all three run whatever failed       *)
(* before, two runs that give a section the same input report the same     *)
(* lines for it, and a QA section without bodies gives exactly one QA fail *)
(* line and a nonzero exit status.                                         *)
C4_SectionsIndependent ==
    /\ \A i \in DOMAIN pc :
           Terminated(i) =>
               /\ \A sec \in Sections : Lines(i, sec) # <<>>
               /\ ~Has(SectionInput(i, "qa"), "bodies") =>
                      /\ exitCode[i] # 0
                      /\ Len(Lines(i, "qa")) = 1
                      /\ Lines(i, "qa")[1].glyph = "fail"
    /\ \A i, j \in DOMAIN pc : \A sec \in Sections :
           /\ Ran(i, sec)
           /\ Ran(j, sec)
           /\ SectionInput(i, sec) = SectionInput(j, sec)
           => Lines(i, sec) = Lines(j, sec)

(* two finished runs with the same failing description, the same issues,   *)
(* and different QA sections, one of them without bodies                   *)
C4_Witness ==
    /\ DOMAIN pc = {1, 2}
    /\ Terminated(1)
    /\ Terminated(2)
    /\ SectionInput(1, "desc") = SectionInput(2, "desc")
    /\ SectionInput(1, "issues") = SectionInput(2, "issues")
    /\ SectionFailed(1, "desc")
    /\ SectionPassed(1, "issues")
    /\ ~Has(SectionInput(1, "qa"), "bodies")
    /\ SectionPassed(2, "qa")

(* C5: a validator whose section is absent or has no bodies writes exactly *)
(* one MissingSection fail line, no pass line, sets the exit status        *)
(* nonzero, and returns at once.                                           *)
MissingFieldName(sec) ==
    IF sec = "desc" THEN "Description of Changes"
    ELSE IF sec = "issues" THEN "GitHub Issues"
    ELSE "Quality Assurance"

C5_MissingSection ==
    \A i \in DOMAIN pc : \A sec \in Sections :
        ~Has(SectionInput(i, sec), "bodies") =>
            /\ Ran(i, sec) =>
                   /\ Lines(i, sec) =
                          <<FailLine(MissingFieldName(sec), "MissingSection", NoText)>>
                   /\ exitCode[i] # 0
            /\ ~Ran(i, sec) => Lines(i, sec) = <<>>
            /\ sec = "qa" =>
                   pc[i] \notin {"qa_criteria", "qa_placeholder", "qa_pass", "aborted"}

(* a finished run whose three sections all lack bodies, one of them an     *)
(* object with other fields                                                *)
C5_Witness ==
    \E i \in DOMAIN pc :
        /\ Completed(i)
        /\ \A sec \in Sections : ~Has(SectionInput(i, sec), "bodies")
        /\ SectionInput(i, "desc") = NoBodies
        /\ SectionInput(i, "qa") = Undefined
        /\ Len(out[i]) = 3

----------------------------------------------------------------------------
(* Text predicates of the properties, stated by position *)

NonSpace(s) == {k \in 1..Len(s) : s[k] \notin WhiteSpace}

Min(S) == CHOOSE k \in S : \A m \in S : k <= m

Max(S) == CHOOSE k \in S : \A m \in S : k >= m

TrimmedLength(s) ==
    IF NonSpace(s) = {} THEN 0 ELSE Max(NonSpace(s)) - Min(NonSpace(s)) + 1

(* some "<", then at least one character other than ">", then ">" *)
ContainsPlaceholder(s) ==
    \E a \in 1..Len(s) : \E b \in (a + 2)..Len(s) :
        /\ s[a] = "<"
        /\ s[b] = ">"
        /\ \A k \in (a + 1)..(b - 1) : s[k] # ">"

Range(list) == {list[k] : k \in 1..Len(list)}

ListBlockIndexes(bodies) == {k \in 1..Len(bodies) : bodies[k].type = "list"}

(* the items of all list-typed blocks, in order *)
AllListItems(bodies) ==
    Flatten([k \in 1..Len(bodies) |->
                IF k \in ListBlockIndexes(bodies) /\ "items" \in DOMAIN bodies[k]
                THEN bodies[k].items
                ELSE <<>>])

(* C6: with bodies present, validateDescriptionOfChanges takes C, the      *)
(* list items whose trimmed raw text is non-empty and holds no <...>       *)
(* placeholder; it fails with NoConcreteChanges iff C is empty, with       *)
(* ChangesNotMeaningful iff C is non-empty but no item of C is longer than *)
(* 10 trimmed, and otherwise passes, reporting in order exactly the items  *)
(* of C longer than 10 trimmed.                                            *)
C6_Candidates(bodies) ==
    LET Candidate(item) ==
            /\ "raw" \in DOMAIN item
            /\ TrimmedLength(item.raw) > 0
            /\ ~ContainsPlaceholder(item.raw)
    IN  SelectSeq(AllListItems(bodies), Candidate)

C6_Reported(bodies) ==
    LET Long(item) == TrimmedLength(item.raw) > 10
    IN  SelectSeq(C6_Candidates(bodies), Long)

C6_DescriptionOutcome ==
    \A i \in DOMAIN pc :
        Ran(i, "desc") /\ Has(SectionInput(i, "desc"), "bodies") =>
            LET bodies == SectionInput(i, "desc").bodies
                line == Lines(i, "desc")[1]
            IN  /\ Len(Lines(i, "desc")) = 1
                /\ line.fieldName = "Description of Changes"
                /\ line.error = "NoConcreteChanges" <=> C6_Candidates(bodies) = <<>>
                /\ line.error = "ChangesNotMeaningful" <=>
                       C6_Candidates(bodies) # <<>> /\ C6_Reported(bodies) = <<>>
                /\ line.glyph = "pass" <=> C6_Reported(bodies) # <<>>
                /\ line.glyph = "pass" =>
                       line.message =
                           Join([k \in 1..Len(C6_Reported(bodies)) |->
                                    C6_Reported(bodies)[k].raw],
                                <<"\n"," "," "," "," ",">"," ">>)
                /\ line.glyph = "fail" =>
                       line.error \in {"NoConcreteChanges", "ChangesNotMeaningful"}

(* a pass that reports two items of two list blocks and leaves out an item *)
(* of trimmed length exactly 10 and a placeholder item                     *)
C6_Witness ==
    \E i \in DOMAIN pc :
        /\ Ran(i, "desc")
        /\ SectionInput(i, "desc") =
               [bodies |-> <<ListOf(<<PlaceholderLong, Len11>>),
                             ListOf(<<Len10Padded, Len11>>)>>]
        /\ Lines(i, "desc") =
               <<PassLine("Description of Changes",
                          Len11 \o <<"\n"," "," "," "," ",">"," ">> \o Len11)>>

(* C7: with bodies present, validateResolvedIssuesSection looks only at    *)
(* the first list-typed block: MissingIssueList if there is none or its    *)
(* raw text is empty; otherwise it passes iff the raw text holds "#" and   *)
(* digits or "n/a" in any case, else MissingResolvedIssues; a pass reports *)
(* the references in order with duplicates, or "N/A" when there are none.  *)
RefStarts(s) ==
    {k \in 1..(Len(s) - 1) : s[k] = "#" /\ s[k + 1] \in Digits}

RefEnd(s, k) ==
    CHOOSE e \in (k + 1)..Len(s) :
        /\ \A m \in (k + 1)..e : s[m] \in Digits
        /\ e = Len(s) \/ s[e + 1] \notin Digits

RECURSIVE Ascending(_)
Ascending(S) ==
    IF S = {} THEN <<>> ELSE <<Min(S)>> \o Ascending(S \ {Min(S)})

References(s) ==
    [k \in 1..Cardinality(RefStarts(s)) |->
        SubSeq(s, Ascending(RefStarts(s))[k],
               RefEnd(s, Ascending(RefStarts(s))[k]))]

ContainsNA(s) ==
    \E k \in 1..(Len(s) - 2) :
        s[k] \in {"n", "N"} /\ s[k + 1] = "/" /\ s[k + 2] \in {"a", "A"}

C7_IssuesOutcome ==
    \A i \in DOMAIN pc :
        Ran(i, "issues") /\ Has(SectionInput(i, "issues"), "bodies") =>
            LET bodies == SectionInput(i, "issues").bodies
                lists == ListBlockIndexes(bodies)
                lines == Lines(i, "issues")
            IN  /\ Len(lines) = 1
                /\ IF lists = {} THEN lines[1].error = "MissingIssueList"
                   ELSE LET first == bodies[Min(lists)] IN
                   IF "raw" \notin DOMAIN first \/ first.raw = <<>>
                   THEN lines[1].error = "MissingIssueList"
                   ELSE IF RefStarts(first.raw) # {}
                   THEN lines[1] =
                            PassLine("Issues resolved by this pull request",
                                     Join(References(first.raw), <<",">>))
                   ELSE IF ContainsNA(first.raw)
                   THEN lines[1] =
                            PassLine("Issues resolved by this pull request",
                                     <<"N","/","A">>)
                   ELSE lines[1] =
                            FailLine("Missing Resolved Issues",
                                     "MissingResolvedIssues", first.raw)

(* a pass that reports the same reference twice, from the first list      *)
(* block only: the text block before it holds other references             *)
C7_Witness ==
    \E i \in DOMAIN pc :
        /\ Ran(i, "issues")
        /\ SectionInput(i, "issues") =
               [bodies |-> <<[type |-> "text", raw |-> TwoIssues],
                             [type |-> "list", raw |-> SameIssueTwice]>>]
        /\ Lines(i, "issues") =
               <<PassLine("Issues resolved by this pull request",
                          <<"#","7",",","#","7">>)>>

(* C8: when the first item of the first list block has non-empty raw text, *)
(* the QA section fails with PlaceholderCriteria and writes no pass line   *)
(* if the trimmed text is the template heading, and otherwise passes with  *)
(* the raw text and leaves the exit status alone.                          *)
FirstCriteria(i) ==
    SectionInput(i, "qa").bodies[Min(ListBlockIndexes(SectionInput(i, "qa").bodies))].items[1]

HasCriteria(i) ==
    /\ Has(SectionInput(i, "qa"), "bodies")
    /\ ListBlockIndexes(SectionInput(i, "qa").bodies) # {}
    /\ LET first == SectionInput(i, "qa").bodies[
                        Min(ListBlockIndexes(SectionInput(i, "qa").bodies))]
       IN  "items" \in DOMAIN first /\ first.items # <<>>

TemplateHeading ==
    <<"-"," ","O","n","c","e"," ","t","h","e"," ","c","h","a","n","g","e","s",
      " ","i","n"," ","t","h","i","s"," ","P","R"," ","a","r","e"," ","m","e",
      "r","g","e","d"," ","a","n","d"," ","d","e","p","l","o","y","e","d",",",
      " ","s","u","c","c","e","s","s"," ","c","r","i","t","e","r","i","a"," ",
      "i","s",":">>

IsHeading(s) ==
    /\ NonSpace(s) # {}
    /\ SubSeq(s, Min(NonSpace(s)), Max(NonSpace(s))) = TemplateHeading

C8_PlaceholderCriteria ==
    \A i \in DOMAIN pc :
        /\ Terminated(i)
        /\ HasCriteria(i)
        /\ "raw" \in DOMAIN FirstCriteria(i)
        /\ FirstCriteria(i).raw # <<>>
        => IF IsHeading(FirstCriteria(i).raw)
           THEN /\ Lines(i, "qa") =
                       <<FailLine("Success criteria", "PlaceholderCriteria",
                                  FirstCriteria(i).raw)>>
                /\ exitCode[i] # 0
           ELSE /\ Lines(i, "qa") =
                       <<PassLine("Success criteria", FirstCriteria(i).raw)>>
                /\ exitCode[i] = 0

(* C9: when the first item of the first list block has no raw text, the QA *)
(* section writes the InvalidCriteriaFormat fail line and no pass line,    *)
(* the exit status is nonzero and the run completes without aborting.      *)
C9_InvalidCriteriaFormat ==
    \A i \in DOMAIN pc :
        /\ HasCriteria(i)
        /\ "raw" \notin DOMAIN FirstCriteria(i) \/ FirstCriteria(i).raw = <<>>
        => /\ pc[i] # "aborted"
           /\ Completed(i) =>
                  /\ Lines(i, "qa") =
                         <<FailLine("Quality Assurance", "InvalidCriteriaFormat",
                                    NoText)>>
                  /\ exitCode[i] # 0

(* C10: with bodies present, validateQaSection fails with MissingChecklist *)
(* when there is no list block, with EmptyChecklist when the first list    *)
(* block has no items, and otherwise its lines, exit status and end state  *)
(* are a function of the first item of the first list block alone.         *)
C10_LinesFor(item) ==
    IF "raw" \notin DOMAIN item
    THEN <<FailLine("Quality Assurance", "InvalidCriteriaFormat", NoText)>>
    ELSE IF item.raw = <<>>
    THEN <<FailLine("Quality Assurance", "InvalidCriteriaFormat", NoText),
           PassLine("Success criteria", item.raw)>>
    ELSE IF IsHeading(item.raw)
    THEN <<FailLine("Success criteria", "PlaceholderCriteria", item.raw),
           PassLine("Success criteria", item.raw)>>
    ELSE <<PassLine("Success criteria", item.raw)>>

C10_EndFor(item) == IF "raw" \notin DOMAIN item THEN "aborted" ELSE "done"

C10_QaDecidedByFirstItem ==
    \A i \in DOMAIN pc :
        Terminated(i) /\ Has(SectionInput(i, "qa"), "bodies") =>
            LET bodies == SectionInput(i, "qa").bodies IN
            IF ListBlockIndexes(bodies) = {}
            THEN /\ Lines(i, "qa") =
                        <<FailLine("Quality Assurance", "MissingChecklist", NoText)>>
                 /\ exitCode[i] # 0
                 /\ Completed(i)
            ELSE IF ~HasCriteria(i)
            THEN /\ Lines(i, "qa") =
                        <<FailLine("Quality Assurance", "EmptyChecklist", NoText)>>
                 /\ exitCode[i] # 0
                 /\ Completed(i)
            ELSE /\ Lines(i, "qa") = C10_LinesFor(FirstCriteria(i))
                 /\ exitCode[i] = 0 <=>
                        ~HasLine(C10_LinesFor(FirstCriteria(i)), "fail")
                 /\ pc[i] = C10_EndFor(FirstCriteria(i))

(* a clean pass although the text block before the first list block and    *)
(* the second item of that list block hold the template heading            *)
C10_Witness ==
    \E i \in DOMAIN pc :
        /\ Completed(i)
        /\ SectionInput(i, "qa") =
               [bodies |-> <<TextOf(<<SUCCESS_CRITERIA_TITLE>>),
                             ListOf(<<ItWorks, SUCCESS_CRITERIA_TITLE>>)>>]
        /\ Lines(i, "qa") = <<PassLine("Success criteria", ItWorks)>>
        /\ exitCode[i] = 0

====
